---- MODULE Spec2Model ----
(***************************************************************************)
(* Model of noteebook/tallerETL/etl_consumer_complaints.py: the column     *)
(* sanitizer (make_safe_column_names) and the normalization pipeline       *)
(* (normalize_and_load) that loads a staging table, two dimension tables,  *)
(* a fact table and an aggregate table into a relational sink.             *)
(***************************************************************************)
EXTENDS Integers, Sequences, FiniteSets, TLC

(***************************************************************************)
(* Bounds of the exploration.                                              *)
(***************************************************************************)
\* Largest number of records of a source.
MaxRows == 2

\* Largest number of characters of the original column labels of a source.
MaxLabelLen == 4

(***************************************************************************)
(* Values.                                                                 *)
(***************************************************************************)
\* The missing-value marker of a DataFrame cell.  load_csv reads every cell
\* as text (dtype=str) and an empty field as NaN, so a cell is NaN or a
\* non-empty text.
NaN == "NaN"

\* SQL NULL in an integer key column (the surrogate keys start at 1).
NULL == 0

ProductValues == {"Loan", "Card"}
ChannelValues == {"Web", "Phone"}
IdValues == {"7", "8"}
DateValues == {"2015-01-01"}

\* Ascending order of the names, as ORDER BY compares them.
NameOrder == <<"Card", "Loan", "Phone", "Web">>

NameRank(n) == CHOOSE i \in 1..Len(NameOrder) : NameOrder[i] = n

AllColumns ==
  {"product", "product_name", "submitted_via", "complaint_id", "date_received"}

\* The cells explored, by column: missing values are explored in the
\* product and submitted_via columns.
CellValues(c) ==
  CASE c = "product" -> ProductValues \cup {NaN}
    [] c = "product_name" -> ProductValues
    [] c = "submitted_via" -> ChannelValues \cup {NaN}
    [] c = "complaint_id" -> IdValues
    [] c = "date_received" -> DateValues

\* The sanitized schemas explored: all required columns (with and without
\* the natural key and the date), either product column or both, and the
\* schemas that lack a required column.
Schemas ==
  { {"product", "submitted_via", "complaint_id"},
    {"product", "submitted_via"},
    {"product_name", "submitted_via"},
    {"product", "product_name", "submitted_via"},
    {"product", "submitted_via", "date_received"},
    {"submitted_via", "complaint_id"},
    {"product"},
    {"complaint_id"} }

RowsOf(cols) == { r \in [cols -> UNION {CellValues(c) : c \in cols}] :
                    \A c \in cols : r[c] \in CellValues(c) }

SeqsUpTo(S, n) == UNION { [1..k -> S] : k \in 0..n }

\* A source DataFrame: its sanitized columns and its records in row order.
Sources ==
  UNION { { [cols |-> cols, rows |-> rs] : rs \in SeqsUpTo(RowsOf(cols), MaxRows) }
          : cols \in Schemas }


(***************************************************************************)
(* make_safe_column_names.  A label is a sequence of characters.           *)
(***************************************************************************)
Uppercase == {"N"}
Lowercase == {"n", "c", "o", "l"}
Digits == {"1"}
Whitespace == {" "}

\* The characters of the original labels explored: a letter in both cases,
\* a digit, the three replaced separators, the blank and the underscore.
LabelChars == {"N", "n", "1", "/", "-", ".", " ", "_"}

\* ch.isalnum()
IsAlnum(ch) == ch \in Uppercase \cup Lowercase \cup Digits

\* str.strip(chars): the leading and trailing characters of chars removed.
RECURSIVE LStrip(_, _)
LStrip(s, chars) ==
  IF s /= <<>> /\ Head(s) \in chars THEN LStrip(Tail(s), chars) ELSE s

RECURSIVE RStrip(_, _)
RStrip(s, chars) ==
  IF s /= <<>> /\ s[Len(s)] \in chars
  THEN RStrip(SubSeq(s, 1, Len(s) - 1), chars) ELSE s

\* Variant: only the leading characters are removed (lstrip).
StripLeft(s, chars) == LStrip(s, chars)

Strip(s, chars) == RStrip(LStrip(s, chars), chars)

\* str.lower()
LowerChar(ch) == IF ch = "N" THEN "n" ELSE ch

Lower(s) == [i \in 1..Len(s) |-> LowerChar(s[i])]

\* str.replace(old, new) for single characters.
Replace(s, old, new) == [i \in 1..Len(s) |-> IF s[i] = old THEN new ELSE s[i]]

\* "".join(ch if ch.isalnum() else "_" for ch in safe)
UnderscoreNonAlnum(s) == [i \in 1..Len(s) |-> IF IsAlnum(s[i]) THEN s[i] ELSE "_"]

\* "__" in safe
HasDoubleUnderscore(s) == \E i \in 1..(Len(s) - 1) : s[i] = "_" /\ s[i + 1] = "_"

\* safe.replace("__", "_"): the occurrences from the left, not overlapping.
RECURSIVE ReplaceDoubleUnderscore(_)
ReplaceDoubleUnderscore(s) ==
  IF Len(s) < 2 THEN s
  ELSE IF s[1] = "_" /\ s[2] = "_"
       THEN <<"_">> \o ReplaceDoubleUnderscore(SubSeq(s, 3, Len(s)))
       ELSE <<s[1]>> \o ReplaceDoubleUnderscore(Tail(s))

\* while "__" in safe: safe = safe.replace("__", "_")
RECURSIVE Collapse(_)
Collapse(s) ==
  IF HasDoubleUnderscore(s) THEN Collapse(ReplaceDoubleUnderscore(s)) ELSE s

Fallback == <<"c", "o", "l">>

\* The body of the loop of lines 45-55 for one label.
SafeName(col) ==
  LET stripped == Lower(Strip(col, Whitespace))
      spaced == Replace(Replace(Replace(stripped, "/", " "), "-", " "), ".", " ")
      safe == Strip(Collapse(UnderscoreNonAlnum(spaced)), {"_"})
  IN  IF safe = <<>> THEN Fallback ELSE safe

\* mapping[col] = safe
SetItem(map, key, value) ==
  [x \in DOMAIN map \cup {key} |-> IF x = key THEN value ELSE map[x]]

\* The labels of a given number of characters.
LabelsOfLen(n) == [1..n -> LabelChars]

(***************************************************************************)
(* DataFrame operations used by normalize_and_load.                        *)
(***************************************************************************)
\* df[col]: the column as a sequence in row order.
Column(d, col) == [i \in 1..Len(d.rows) |-> d.rows[i][col]]

\* Variant: missing values are kept.
DropNaIdentity(s) == s

\* .dropna(): the records whose value is not missing, order kept.
DropNa(s) == SelectSeq(s, LAMBDA v : v /= NaN)

RECURSIVE SortedNames(_)
SortedNames(S) ==
  IF S = {} THEN <<>>
  ELSE LET least == CHOOSE a \in S : \A b \in S : NameRank(a) <= NameRank(b)
       IN  <<least>> \o SortedNames(S \ {least})

\* Variant: the distinct values in the order of the names (sorted(set(...))).
DropDuplicatesSorted(s) == SortedNames({ s[i] : i \in 1..Len(s) })

\* .drop_duplicates(): the first occurrence of every value, order kept.
RECURSIVE DropDuplicates(_)
DropDuplicates(s) ==
  IF s = <<>> THEN <<>>
  ELSE LET front == DropDuplicates(SubSeq(s, 1, Len(s) - 1))
           last == s[Len(s)]
       IN  IF \E i \in 1..Len(front) : front[i] = last
           THEN front ELSE Append(front, last)

\* .reset_index(drop=True) and insert(0, "id", index + 1): ids 1..N in order.
InsertId(names) == [i \in 1..Len(names) |-> [id |-> i, name |-> names[i]]]

\* df[[col]].dropna().drop_duplicates().rename(...).reset_index(), with ids.
BuildDimension(d, col) == InsertId(DropDuplicates(DropNa(Column(d, col))))

\* dict(zip(dim["name"], dim["id"])): a later row overrides an earlier one
\* of the same name.
DimMap(dim) ==
  [n \in {dim[i].name : i \in 1..Len(dim)} |->
     LET last == CHOOSE i \in 1..Len(dim) :
                   /\ dim[i].name = n
                   /\ \A j \in 1..Len(dim) : dim[j].name = n => j <= i
     IN  dim[last].id]

\* Variant: every mapped value gets the first key.
SeriesMapFirstId(v, map) == IF v \in DOMAIN map THEN 1 ELSE NULL

\* Variant: a value with no entry gets the first key instead of none.
SeriesMapDefaultOne(v, map) == IF v \in DOMAIN map THEN map[v] ELSE 1

\* Series.map(dict): the value's entry, missing when it has none.
SeriesMap(v, map) == IF v \in DOMAIN map THEN map[v] ELSE NULL

\* .astype(str) of a text column: a missing cell becomes the text "nan".
AsTypeStr(v) == IF v = NaN THEN "nan" ELSE v

\* Variant: the generated keys are the 0-based row positions.
FactKeysZeroBased(d) ==
  IF "complaint_id" \in d.cols
  THEN [i \in 1..Len(d.rows) |-> AsTypeStr(d.rows[i]["complaint_id"])]
  ELSE [i \in 1..Len(d.rows) |-> ToString(i - 1)]

\* The column of the fact key: the source's complaint_id as text, or the
\* 1-based row number as text.
FactKeys(d) ==
  IF "complaint_id" \in d.cols
  THEN [i \in 1..Len(d.rows) |-> AsTypeStr(d.rows[i]["complaint_id"])]
  ELSE [i \in 1..Len(d.rows) |-> ToString(i)]

FactColumns(d) ==
  {"complaint_id", "product_id", "channel_id"}
    \cup (IF "date_received" \in d.cols THEN {"date_received"} ELSE {})

\* The fact DataFrame: one row per source record.
FactRow(d, i, pcol, ccol, pmap, cmap) ==
  LET base == [complaint_id |-> FactKeys(d)[i],
               product_id |-> SeriesMap(d.rows[i][pcol], pmap),
               channel_id |-> SeriesMap(d.rows[i][ccol], cmap)]
  IN  IF "date_received" \in d.cols
      THEN [complaint_id |-> base.complaint_id,
            product_id |-> base.product_id,
            channel_id |-> base.channel_id,
            date_received |-> d.rows[i]["date_received"]]
      ELSE base

\* Variant: records that map to no dimension are left out.
BuildFactDropUnmapped(d, pcol, ccol, pmap, cmap) ==
  SelectSeq([i \in 1..Len(d.rows) |-> FactRow(d, i, pcol, ccol, pmap, cmap)],
            LAMBDA f : f.product_id /= NULL \/ f.channel_id /= NULL)

\* The fact frame of lines 158-170.
BuildFact(d, pcol, ccol, pmap, cmap) ==
  [i \in 1..Len(d.rows) |-> FactRow(d, i, pcol, ccol, pmap, cmap)]

\* The column detection of lines 109-114.
DetectProductCol(cols) ==
  IF "product" \in cols THEN "product"
  ELSE IF "product_name" \in cols THEN "product_name" ELSE "none"

DetectChannelCol(cols) ==
  IF "submitted_via" \in cols THEN "submitted_via" ELSE "none"

\* Variant: the message stops at the first missing column.
MissingColumnsFirstOnly(pcol, ccol) ==
  IF pcol = "none" THEN <<"product/product_name">> ELSE <<"submitted_via">>

\* The names the error message lists.
MissingColumns(pcol, ccol) ==
  (IF pcol = "none" THEN <<"product/product_name">> ELSE <<>>)
    \o (IF ccol = "none" THEN <<"submitted_via">> ELSE <<>>)

(***************************************************************************)
(* The relational sink.  A table is absent or holds its columns, its rows  *)
(* in insertion order, whether a primary key is declared on it, and the    *)
(* names of its indexes.                                                   *)
(***************************************************************************)
TableNames ==
  {"stg_consumer_complaints", "dim_product", "dim_channel", "fact_complaint",
   "agg_complaints_by_product_channel"}

Absent == [exists |-> FALSE, cols |-> {}, rows |-> <<>>, pk |-> FALSE, idx |-> {}]

EmptySink == [t \in TableNames |-> Absent]

\* Variant: if_exists="append", the rows are added to an existing table.
ToSqlAppend(t, cols, rows) ==
  IF t.exists THEN [t EXCEPT !.rows = t.rows \o rows]
  ELSE [exists |-> TRUE, cols |-> cols, rows |-> rows, pk |-> FALSE, idx |-> {}]

\* Variant: the rows are replaced in place (DELETE and INSERT), the table's
\* primary key and indexes stay.
ToSqlKeepConstraints(t, cols, rows) ==
  IF t.exists THEN [t EXCEPT !.cols = cols, !.rows = rows]
  ELSE [exists |-> TRUE, cols |-> cols, rows |-> rows, pk |-> FALSE, idx |-> {}]

\* DataFrame.to_sql(name, engine, if_exists="replace", index=False): the
\* table is dropped when it exists (with its constraints and indexes),
\* created again and the frame's rows inserted.
ToSqlReplace(t, cols, rows) ==
  [exists |-> TRUE, cols |-> cols, rows |-> rows, pk |-> FALSE, idx |-> {}]

ColumnValues(t, col) == [i \in 1..Len(t.rows) |-> t.rows[i][col]]

\* to_sql stores a missing cell as NULL: NULL in an integer column, the
\* missing marker in a text column.
IntegerColumns == {"id", "product_id", "channel_id", "complaints_count"}

IsNull(col, v) == IF col \in IntegerColumns THEN v = NULL ELSE v = NaN

IsUnique(s) == \A i, j \in 1..Len(s) : s[i] = s[j] => i = j

\* Variant: the key is declared without looking at the values of the column.
CanAddPrimaryKeyUnchecked(t, col) == t.exists /\ ~t.pk /\ col \in t.cols

\* ALTER TABLE t ADD PRIMARY KEY (col) succeeds on an existing table that
\* has no primary key yet and whose column holds no NULL and no duplicate.
CanAddPrimaryKey(t, col) ==
  /\ t.exists
  /\ ~t.pk
  /\ col \in t.cols
  /\ IsUnique(ColumnValues(t, col))
  /\ \A i \in 1..Len(t.rows) : ~IsNull(col, t.rows[i][col])

AddPrimaryKey(t) == [t EXCEPT !.pk = TRUE]

\* CREATE UNIQUE INDEX IF NOT EXISTS name ON t(col): nothing to do when the
\* index exists; otherwise the column must hold no duplicate.
CanCreateUniqueIndex(t, name, col) ==
  \/ name \in t.idx
  \/ /\ t.exists
     /\ col \in t.cols
     /\ IsUnique(ColumnValues(t, col))

\* CREATE INDEX IF NOT EXISTS name ON t(col).
CanCreateIndex(t, name, col) ==
  \/ name \in t.idx
  \/ t.exists /\ col \in t.cols

CreateIndex(t, name) == [t EXCEPT !.idx = t.idx \cup {name}]

(***************************************************************************)
(* The aggregate query of lines 185-195.                                   *)
(***************************************************************************)
\* Variant: a fact row with a NULL key joins every row of that dimension.
JoinRowsLeft(f, dp, dc) ==
  { <<i, j, k>> \in (1..Len(f.rows)) \X (1..Len(dp.rows)) \X (1..Len(dc.rows)) :
      /\ f.rows[i].product_id = NULL \/ dp.rows[j].id = f.rows[i].product_id
      /\ f.rows[i].channel_id = NULL \/ dc.rows[k].id = f.rows[i].channel_id }

\* FROM fact f JOIN dim_product dp ON dp.id = f.product_id
\*             JOIN dim_channel dc ON dc.id = f.channel_id:
\* the triples of row positions that satisfy both join conditions (a NULL
\* key equals no id).
JoinRows(f, dp, dc) ==
  { <<i, j, k>> \in (1..Len(f.rows)) \X (1..Len(dp.rows)) \X (1..Len(dc.rows)) :
      /\ f.rows[i].product_id /= NULL
      /\ f.rows[i].channel_id /= NULL
      /\ dp.rows[j].id = f.rows[i].product_id
      /\ dc.rows[k].id = f.rows[i].channel_id }

\* GROUP BY dp.id, dp.name, dc.id, dc.name with COUNT(*).
GroupKey(t, dp, dc) ==
  [product_id |-> dp.rows[t[2]].id, product |-> dp.rows[t[2]].name,
   channel_id |-> dc.rows[t[3]].id, channel |-> dc.rows[t[3]].name]

\* Variant: SELECT DISTINCT in place of COUNT(*), every group counted once.
GroupCountDistinct(f, dp, dc) ==
  LET J == JoinRows(f, dp, dc)
      keys == { GroupKey(t, dp, dc) : t \in J }
  IN  { [product_id |-> g.product_id, product |-> g.product,
         channel_id |-> g.channel_id, channel |-> g.channel,
         complaints_count |-> 1] : g \in keys }

GroupCount(f, dp, dc) ==
  LET J == JoinRows(f, dp, dc)
      keys == { GroupKey(t, dp, dc) : t \in J }
  IN  { [product_id |-> g.product_id, product |-> g.product,
         channel_id |-> g.channel_id, channel |-> g.channel,
         complaints_count |-> Cardinality({ t \in J : GroupKey(t, dp, dc) = g })]
        : g \in keys }

\* Variant: the rows are ordered by the surrogate keys.
SortKeyById(a) == <<a.product_id, a.channel_id, NameRank(a.product), NameRank(a.channel)>>

\* ORDER BY dp.name, dc.name.  Rows equal in both names (none, when the
\* names of a dimension are distinct) are put in key order.
SortKey(a) == <<NameRank(a.product), NameRank(a.channel), a.product_id, a.channel_id>>

RowBefore(a, b) ==
  \E i \in DOMAIN SortKey(a) :
    /\ SortKey(a)[i] < SortKey(b)[i]
    /\ \A j \in DOMAIN SortKey(a) : j < i => SortKey(a)[j] = SortKey(b)[j]

RECURSIVE OrderBy(_)
OrderBy(S) ==
  IF S = {} THEN <<>>
  ELSE LET first == CHOOSE a \in S : \A b \in S \ {a} : RowBefore(a, b)
       IN  <<first>> \o OrderBy(S \ {first})

AggColumns == {"product_id", "product", "channel_id", "channel", "complaints_count"}

\* CREATE TABLE agg AS SELECT ... : the rows of the query.
AggregateRows(f, dp, dc) == OrderBy(GroupCount(f, dp, dc))

(***************************************************************************)
(* State.                                                                  *)
(***************************************************************************)
VARIABLES
  sink,         \* the tables of the relational store
  df,           \* the DataFrame of the run in progress (or of the last run)
  pc,           \* the statement normalize_and_load is at
  product_col,  \* local: the detected product column
  channel_col,  \* local: the detected channel column
  products,     \* local: the product dimension frame
  channels,     \* local: the channel dimension frame
  fact,         \* local: the fact frame
  error,        \* the exception the run ended with
  calls,        \* how the caller has invoked the pipeline so far
  prevDf,       \* the source of the previous run
  prevSink,     \* the sink as the previous run left it
  prevOutcome,  \* how the previous run ended
  columns,      \* make_safe_column_names: the original labels (df.columns)
  mapping,      \* make_safe_column_names: the dictionary built so far
  next_col,     \* make_safe_column_names: the position of the loop
  other,        \* the locals of a second run in progress on the same sink
  xml_rows,     \* write_xml_top_componentes: the rows it was called with
  xml_next,     \* write_xml_top_componentes: the position of the loop
  current_country,  \* write_xml_top_componentes: local
  country_el,   \* write_xml_top_componentes: local, the open pais element
  root,         \* write_xml_top_componentes: the pais elements under the root
  xml_pc,       \* write_xml_top_componentes: where the call is
  timeout_seconds,  \* wait_for_db: the parameter
  start,        \* wait_for_db: local, the clock when the call began
  now,          \* the clock, in seconds (time.time())
  attempts,     \* wait_for_db: the connection attempts finished so far
  attempt_at,   \* wait_for_db: the clock when the last attempt was made
  connected,    \* wait_for_db: whether the last attempt returned a connection
  wait_pc       \* wait_for_db: where the call is

vars == <<sink, df, pc, product_col, channel_col, products, channels, fact,
          error, calls, prevDf, prevSink, prevOutcome, columns, mapping, next_col,
          other, xml_rows, xml_next, current_country, country_el, root, xml_pc,
          timeout_seconds, start, now, attempts, attempt_at, connected, wait_pc>>

NoSource == [cols |-> {}, rows |-> <<>>]

\* The state of a call of wait_for_db.
waiting == <<timeout_seconds, start, now, attempts, attempt_at, connected, wait_pc>>

\* The state of a call of write_xml_top_componentes.
xmlstate == <<xml_rows, xml_next, current_country, country_el, root, xml_pc>>

\* The state of the programs of taller_cobranzas.
cobranzas == <<xmlstate, waiting>>

\* A Python value: None, or a text.
None == [type |-> "NoneType", v |-> ""]
Str(x) == [type |-> "str", v |-> x]

\* Variant: the loop starts with the empty text as current country.
InitialCountryEmpty == Str("")

\* current_country = None
InitialCountry == None

\* No call of wait_for_db has been made.
InitWait ==
  /\ timeout_seconds = 0
  /\ start = 0
  /\ now = 0
  /\ attempts = 0
  /\ attempt_at = 0
  /\ connected = FALSE
  /\ wait_pc = "idle"

\* No call of write_xml_top_componentes has been made.
InitXml ==
  /\ xml_rows = <<>>
  /\ xml_next = 1
  /\ current_country = InitialCountry
  /\ country_el = 0
  /\ root = <<>>
  /\ xml_pc = "idle"

\* error: the exception and the columns or tables it names.
NoError == [kind |-> "none", names |-> <<>>]

\* No second run.
NoRun ==
  [df |-> NoSource, pc |-> "idle", product_col |-> "none", channel_col |-> "none",
   products |-> <<>>, channels |-> <<>>, fact |-> <<>>, error |-> NoError]

\* Sources of the runs that come before the run under study: one that
\* completes, one that stops at the fact primary key and one that lacks a
\* required column.
SeedSources ==
  { [cols |-> {"product", "submitted_via"},
     rows |-> << [product |-> "Card", submitted_via |-> "Phone"],
                 [product |-> "Loan", submitted_via |-> NaN] >>],
    [cols |-> {"product", "submitted_via", "complaint_id"},
     rows |-> << [product |-> "Loan", submitted_via |-> "Web", complaint_id |-> "7"],
                 [product |-> "Loan", submitted_via |-> "Web", complaint_id |-> "7"] >>],
    [cols |-> {"product"},
     rows |-> << [product |-> "Card"] >>] }

InitPipeline ==
  /\ sink = EmptySink
  /\ other = NoRun
  /\ InitXml
  /\ InitWait
  /\ df = NoSource
  /\ pc = "idle"
  /\ product_col = "none"
  /\ channel_col = "none"
  /\ products = <<>>
  /\ channels = <<>>
  /\ fact = <<>>
  /\ error = NoError
  /\ calls = "none"
  /\ prevDf = NoSource
  /\ prevSink = EmptySink
  /\ prevOutcome = "none"

\* No call of make_safe_column_names is in progress.
InitSanitizer ==
  /\ columns = <<>>
  /\ mapping = <<>>
  /\ next_col = 1

Init == InitPipeline /\ InitSanitizer

(***************************************************************************)
(* main(): load the source and call normalize_and_load.                    *)
(***************************************************************************)
Finished == pc \in {"idle", "done", "failed"}

history == <<calls, prevDf, prevSink, prevOutcome>>
sanitizer == <<columns, mapping, next_col>>
pipeline == <<sink, df, pc, product_col, channel_col, products, channels, fact,
              error, history>>

Begin(s) ==
  /\ Finished
  /\ df' = s
  /\ pc' = "staging"
  /\ product_col' = "none"
  /\ channel_col' = "none"
  /\ products' = <<>>
  /\ channels' = <<>>
  /\ fact' = <<>>
  /\ error' = NoError
  /\ prevDf' = df
  /\ prevSink' = sink
  /\ prevOutcome' = pc
  /\ UNCHANGED <<sink, sanitizer, other, cobranzas>>

\* An earlier run, on one of the seed sources.
SeedRun ==
  /\ calls = "none"
  /\ \E s \in SeedSources : Begin(s)
  /\ calls' = "seeded"

\* A run on any source, on an empty sink or after the seed run.
StartRun ==
  /\ calls \in {"none", "seeded"}
  /\ \E s \in Sources : Begin(s)
  /\ calls' = "loaded"

\* The pipeline is run again on the unchanged source.
RepeatRun ==
  /\ calls = "loaded"
  /\ Begin(df)
  /\ UNCHANGED calls

locals == <<product_col, channel_col, products, channels, fact>>

(***************************************************************************)
(* normalize_and_load, statement by statement.                             *)
(***************************************************************************)
\* 1) df.to_sql("stg_consumer_complaints", if_exists="replace")
WriteStaging ==
  /\ pc = "staging"
  /\ sink' = [sink EXCEPT !["stg_consumer_complaints"] =
                ToSqlReplace(@, df.cols, df.rows)]
  /\ pc' = "detect"
  /\ UNCHANGED <<df, locals, error, history, sanitizer, other, cobranzas>>

\* 2) detect the columns; raise ValueError when one is absent
DetectColumns ==
  /\ pc = "detect"
  /\ product_col' = DetectProductCol(df.cols)
  /\ channel_col' = DetectChannelCol(df.cols)
  /\ IF product_col' = "none" \/ channel_col' = "none"
     THEN /\ pc' = "failed"
          /\ error' = [kind |-> "ValueError",
                      names |-> MissingColumns(product_col', channel_col')]
     ELSE /\ pc' = "dimensions"
          /\ UNCHANGED error
  /\ UNCHANGED <<sink, df, products, channels, fact, history, sanitizer, other, cobranzas>>

\* Variant: the fact frame is built and written next, the dimension tables
\* are not written first.
BuildDimensionsThenFact ==
  /\ pc = "dimensions"
  /\ products' = BuildDimension(df, product_col)
  /\ channels' = BuildDimension(df, channel_col)
  /\ pc' = "build_fact"
  /\ UNCHANGED <<sink, df, product_col, channel_col, fact, error, history, sanitizer, other, cobranzas>>

\* products = ..., channels = ...
BuildDimensions ==
  /\ pc = "dimensions"
  /\ products' = BuildDimension(df, product_col)
  /\ channels' = BuildDimension(df, channel_col)
  /\ pc' = "write_dim_product"
  /\ UNCHANGED <<sink, df, product_col, channel_col, fact, error, history, sanitizer, other, cobranzas>>

\* Variant: the declarations on the dimensions come right after the product
\* dimension, the channel dimension is not written first.
WriteDimProductThenConstrain ==
  /\ pc = "write_dim_product"
  /\ sink' = [sink EXCEPT !["dim_product"] = ToSqlReplace(@, {"id", "name"}, products)]
  /\ pc' = "constrain_dims"
  /\ UNCHANGED <<df, locals, error, history, sanitizer, other, cobranzas>>

\* products.to_sql("dim_product", if_exists="replace")
WriteDimProduct ==
  /\ pc = "write_dim_product"
  /\ sink' = [sink EXCEPT !["dim_product"] = ToSqlReplace(@, {"id", "name"}, products)]
  /\ pc' = "write_dim_channel"
  /\ UNCHANGED <<df, locals, error, history, sanitizer, other, cobranzas>>

\* channels.to_sql("dim_channel", if_exists="replace")
WriteDimChannel ==
  /\ pc = "write_dim_channel"
  /\ sink' = [sink EXCEPT !["dim_channel"] = ToSqlReplace(@, {"id", "name"}, channels)]
  /\ pc' = "constrain_dims"
  /\ UNCHANGED <<df, locals, error, history, sanitizer, other, cobranzas>>

\* The transaction of lines 148-152: both primary keys and both unique
\* indexes are declared, or the transaction rolls back and the error is
\* raised.
ConstrainDimensions ==
  /\ pc = "constrain_dims"
  /\ IF /\ CanAddPrimaryKey(sink["dim_product"], "id")
        /\ CanAddPrimaryKey(sink["dim_channel"], "id")
        /\ CanCreateUniqueIndex(sink["dim_product"], "uidx_dim_product_name", "name")
        /\ CanCreateUniqueIndex(sink["dim_channel"], "uidx_dim_channel_name", "name")
     THEN /\ sink' = [sink EXCEPT
                 !["dim_product"] =
                    CreateIndex(AddPrimaryKey(@), "uidx_dim_product_name"),
                 !["dim_channel"] =
                    CreateIndex(AddPrimaryKey(@), "uidx_dim_channel_name")]
          /\ pc' = "build_fact"
          /\ UNCHANGED error
     ELSE /\ pc' = "failed"
          /\ error' = [kind |-> "DatabaseError", names |-> <<"dim_product", "dim_channel">>]
          /\ UNCHANGED sink
  /\ UNCHANGED <<df, locals, history, sanitizer, other, cobranzas>>

\* 3) the fact frame
BuildFactFrame ==
  /\ pc = "build_fact"
  /\ fact' = BuildFact(df, product_col, channel_col,
                       DimMap(products), DimMap(channels))
  /\ pc' = "write_fact"
  /\ UNCHANGED <<sink, df, product_col, channel_col, products, channels,
                 error, history, sanitizer, other, cobranzas>>

\* fact.to_sql("fact_complaint", if_exists="replace")
WriteFact ==
  /\ pc = "write_fact"
  /\ sink' = [sink EXCEPT !["fact_complaint"] =
                ToSqlReplace(@, FactColumns(df), fact)]
  /\ pc' = "constrain_fact"
  /\ UNCHANGED <<df, locals, error, history, sanitizer, other, cobranzas>>

\* The transaction of lines 174-177.
ConstrainFact ==
  /\ pc = "constrain_fact"
  /\ IF /\ CanAddPrimaryKey(sink["fact_complaint"], "complaint_id")
        /\ CanCreateIndex(sink["fact_complaint"], "idx_fact_complaint_product",
                          "product_id")
        /\ CanCreateIndex(sink["fact_complaint"], "idx_fact_complaint_channel",
                          "channel_id")
     THEN /\ sink' = [sink EXCEPT !["fact_complaint"] =
                 CreateIndex(CreateIndex(AddPrimaryKey(@),
                                         "idx_fact_complaint_product"),
                             "idx_fact_complaint_channel")]
          /\ pc' = "aggregate"
          /\ UNCHANGED error
     ELSE /\ pc' = "failed"
          /\ error' = [kind |-> "DatabaseError", names |-> <<"fact_complaint">>]
          /\ UNCHANGED sink
  /\ UNCHANGED <<df, locals, history, sanitizer, other, cobranzas>>

\* 4) The transaction of lines 180-200: DROP TABLE IF EXISTS, CREATE TABLE
\* AS SELECT and the two indexes.
BuildAggregate ==
  /\ pc = "aggregate"
  /\ IF /\ sink["fact_complaint"].exists
        /\ sink["dim_product"].exists
        /\ sink["dim_channel"].exists
     THEN /\ sink' = [sink EXCEPT !["agg_complaints_by_product_channel"] =
                 [exists |-> TRUE,
                  cols |-> AggColumns,
                  rows |-> AggregateRows(sink["fact_complaint"],
                                         sink["dim_product"], sink["dim_channel"]),
                  pk |-> FALSE,
                  idx |-> {"idx_agg_prod", "idx_agg_chan"}]]
          /\ pc' = "done"
          /\ UNCHANGED error
     ELSE /\ pc' = "failed"
          /\ error' = [kind |-> "DatabaseError",
                      names |-> <<"agg_complaints_by_product_channel">>]
          /\ UNCHANGED sink
  /\ UNCHANGED <<df, locals, history, sanitizer, other, cobranzas>>

Next ==
  \/ SeedRun
  \/ StartRun
  \/ RepeatRun
  \/ WriteStaging
  \/ DetectColumns
  \/ BuildDimensions
  \/ WriteDimProduct
  \/ WriteDimChannel
  \/ ConstrainDimensions
  \/ BuildFactFrame
  \/ WriteFact
  \/ ConstrainFact
  \/ BuildAggregate

Spec == Init /\ [][Next]_vars

(***************************************************************************)
(* Runs that are interrupted.  The sink may refuse a statement and the     *)
(* process may stop between two statements.  What DataFrame.to_sql commits *)
(* on the way depends on the pandas the program is run with, which the     *)
(* repository does not fix: either the drop, the create and the inserts    *)
(* are one transaction (the Write actions above), or the drop and the      *)
(* create are committed one by one and the inserts, all batches of         *)
(* chunksize rows together, in a transaction of their own (DropTable,      *)
(* CreateTable, InsertRows).  Both are behaviours of the program.          *)
(***************************************************************************)
ToSqlStatements == {"staging", "write_dim_product", "write_dim_channel", "write_fact"}

ToSqlTarget(p) ==
  CASE p = "staging" -> "stg_consumer_complaints"
    [] p = "write_dim_product" -> "dim_product"
    [] p = "write_dim_channel" -> "dim_channel"
    [] p = "write_fact" -> "fact_complaint"

\* The frame the statement writes.
ToSqlFrame(p) ==
  CASE p = "staging" -> [cols |-> df.cols, rows |-> df.rows]
    [] p = "write_dim_product" -> [cols |-> {"id", "name"}, rows |-> products]
    [] p = "write_dim_channel" -> [cols |-> {"id", "name"}, rows |-> channels]
    [] p = "write_fact" -> [cols |-> FactColumns(df), rows |-> fact]

\* The statement that follows.
ToSqlNextPc(p) ==
  CASE p = "staging" -> "detect"
    [] p = "write_dim_product" -> "write_dim_channel"
    [] p = "write_dim_channel" -> "constrain_dims"
    [] p = "write_fact" -> "constrain_fact"

\* Positions inside a to_sql call.
Dropped(p) == p \o "_dropped"
Created(p) == p \o "_created"

\* The table exists: to_sql drops it, and the drop is committed.
DropTable ==
  \E p \in ToSqlStatements :
    /\ pc = p
    /\ sink[ToSqlTarget(p)].exists
    /\ sink' = [sink EXCEPT ![ToSqlTarget(p)] = Absent]
    /\ pc' = Dropped(p)
    /\ UNCHANGED <<df, locals, error, history, sanitizer, other, cobranzas>>

\* to_sql creates the table from the frame's columns, and the create is
\* committed.
CreateTable ==
  \E p \in ToSqlStatements :
    /\ \/ pc = Dropped(p)
       \/ pc = p /\ ~sink[ToSqlTarget(p)].exists
    /\ sink' = [sink EXCEPT ![ToSqlTarget(p)] =
                  ToSqlReplace(Absent, ToSqlFrame(p).cols, <<>>)]
    /\ pc' = Created(p)
    /\ UNCHANGED <<df, locals, error, history, sanitizer, other, cobranzas>>

\* to_sql inserts the rows, batch after batch in one transaction, and
\* commits.
InsertRows ==
  \E p \in ToSqlStatements :
    /\ pc = Created(p)
    /\ sink' = [sink EXCEPT ![ToSqlTarget(p)].rows = ToSqlFrame(p).rows]
    /\ pc' = ToSqlNextPc(p)
    /\ UNCHANGED <<df, locals, error, history, sanitizer, other, cobranzas>>

\* The statements that are sent to the sink, and the table each is about.
SinkStatements ==
  ToSqlStatements
    \cup {Dropped(p) : p \in ToSqlStatements}
    \cup {Created(p) : p \in ToSqlStatements}
    \cup {"constrain_dims", "constrain_fact", "aggregate"}

Running ==
  SinkStatements \cup {"detect", "dimensions", "build_fact"}

\* Runs in which the sink may fail and the process may stop.
Interruptible == calls \in {"interrupted", "following"}

\* The sink is unavailable or refuses the statement: the open transaction
\* is rolled back, the exception leaves normalize_and_load.
SinkFails ==
  /\ Interruptible
  /\ pc \in SinkStatements
  /\ pc' = "failed"
  /\ error' = [kind |-> "OperationalError", names |-> <<pc>>]
  /\ UNCHANGED <<sink, df, locals, history, sanitizer, other, cobranzas>>

\* The process stops between two statements.
Crash ==
  /\ Interruptible
  /\ pc \in Running
  /\ pc' = "failed"
  /\ error' = [kind |-> "Crash", names |-> <<>>]
  /\ UNCHANGED <<sink, df, locals, history, sanitizer, other, cobranzas>>

\* The sources of the run that follows an interrupted run: the seed
\* sources and every source of at most one record.
FollowingSources == SeedSources \cup {s \in Sources : Len(s.rows) <= 1}

\* A run on a seed source that may be interrupted.
InterruptedRun ==
  /\ calls \in {"none", "seeded"}
  /\ \E s \in SeedSources : Begin(s)
  /\ calls' = "interrupted"

\* The run after it.
FollowingRun ==
  /\ calls \in {"none", "seeded", "interrupted"}
  /\ \E s \in FollowingSources : Begin(s)
  /\ calls' = "following"

NextFaults ==
  \/ SeedRun
  \/ InterruptedRun
  \/ FollowingRun
  \/ WriteStaging
  \/ DetectColumns
  \/ BuildDimensions
  \/ WriteDimProduct
  \/ WriteDimChannel
  \/ ConstrainDimensions
  \/ BuildFactFrame
  \/ WriteFact
  \/ ConstrainFact
  \/ BuildAggregate
  \/ DropTable
  \/ CreateTable
  \/ InsertRows
  \/ SinkFails
  \/ Crash

SpecFaults == Init /\ [][NextFaults]_vars

(***************************************************************************)
(* Runs on the source of three records (Loan, Web), (Loan, Phone),         *)
(* (Loan, Web), under every schema that has a product column, the channel  *)
(* column and no natural key.                                              *)
(***************************************************************************)
ScenarioPairs == << <<"Loan", "Web">>, <<"Loan", "Phone">>, <<"Loan", "Web">> >>

ScenarioSchemas ==
  { cols \in Schemas : /\ DetectProductCol(cols) /= "none"
                       /\ DetectChannelCol(cols) /= "none"
                       /\ "complaint_id" \notin cols }

ScenarioSources ==
  UNION { { [cols |-> cols, rows |-> rs] :
              rs \in { q \in [1..Len(ScenarioPairs) -> RowsOf(cols)] :
                         \A i \in 1..Len(ScenarioPairs) :
                           /\ q[i][DetectProductCol(cols)] = ScenarioPairs[i][1]
                           /\ q[i][DetectChannelCol(cols)] = ScenarioPairs[i][2] } }
          : cols \in ScenarioSchemas }

\* A run on the scenario source, on an empty sink or after the seed run.
ScenarioRun ==
  /\ calls \in {"none", "seeded"}
  /\ \E s \in ScenarioSources : Begin(s)
  /\ calls' = "scenario"

NextScenario ==
  \/ SeedRun
  \/ ScenarioRun
  \/ WriteStaging
  \/ DetectColumns
  \/ BuildDimensions
  \/ WriteDimProduct
  \/ WriteDimChannel
  \/ ConstrainDimensions
  \/ BuildFactFrame
  \/ WriteFact
  \/ ConstrainFact
  \/ BuildAggregate

SpecScenario == Init /\ [][NextScenario]_vars

(***************************************************************************)
(* Two runs on one sink.  main() is called in two processes; each run has  *)
(* its own locals and both send their statements to the same sink, one     *)
(* statement at a time.  The variables df .. error hold the locals of the  *)
(* run whose statement comes next, other holds those of the run that       *)
(* waits.                                                                  *)
(***************************************************************************)
\* The sources of the two runs: one record with both required columns.
ConcurrentSources ==
  { s \in Sources : s.cols = {"product", "submitted_via"} /\ Len(s.rows) = 1 }

RunLocals ==
  [df |-> df, pc |-> pc, product_col |-> product_col, channel_col |-> channel_col,
   products |-> products, channels |-> channels, fact |-> fact, error |-> error]

\* The first process calls main().
FirstRun ==
  /\ calls = "none"
  /\ \E s \in ConcurrentSources : Begin(s)
  /\ calls' = "concurrent"

\* The second process calls main() on another source, before, while or
\* after the first run sends its statements.
SecondRun ==
  /\ calls = "concurrent"
  /\ other.pc = "idle"
  /\ \E s \in ConcurrentSources \ {df} :
       other' = [NoRun EXCEPT !.df = s, !.pc = "staging"]
  /\ UNCHANGED <<sink, df, pc, locals, error, history, sanitizer, cobranzas>>

\* Variant: a run waits until the other one has finished.
SwitchWhenFinished ==
  /\ calls \in {"concurrent", "interleaved"}
  /\ pc \in {"done", "failed"}
  /\ other.pc \notin {"idle", "done", "failed"}
  /\ df' = other.df
  /\ pc' = other.pc
  /\ product_col' = other.product_col
  /\ channel_col' = other.channel_col
  /\ products' = other.products
  /\ channels' = other.channels
  /\ fact' = other.fact
  /\ error' = other.error
  /\ other' = RunLocals
  /\ UNCHANGED <<sink, history, sanitizer, cobranzas>>

\* The next statement the sink receives is one of the other run: nothing in
\* normalize_and_load makes a run wait for another.  The execution is
\* interleaved once a run that has sent a statement and has not finished
\* is overtaken.
Switch ==
  /\ calls \in {"concurrent", "interleaved"}
  /\ other.pc \notin {"idle", "done", "failed"}
  /\ df' = other.df
  /\ pc' = other.pc
  /\ product_col' = other.product_col
  /\ channel_col' = other.channel_col
  /\ products' = other.products
  /\ channels' = other.channels
  /\ fact' = other.fact
  /\ error' = other.error
  /\ other' = RunLocals
  /\ calls' = IF pc \in {"staging", "done", "failed"} THEN calls ELSE "interleaved"
  /\ UNCHANGED <<sink, prevDf, prevSink, prevOutcome, sanitizer, cobranzas>>

NextConcurrent ==
  \/ FirstRun
  \/ SecondRun
  \/ Switch
  \/ WriteStaging
  \/ DetectColumns
  \/ BuildDimensions
  \/ WriteDimProduct
  \/ WriteDimChannel
  \/ ConstrainDimensions
  \/ BuildFactFrame
  \/ WriteFact
  \/ ConstrainFact
  \/ BuildAggregate

SpecConcurrent == Init /\ [][NextConcurrent]_vars

(***************************************************************************)
(* reportes.py: write_xml_top_componentes(path, rows, headers), one row    *)
(* per step.  The pais elements under the root are kept in order, each     *)
(* with its name and its componente elements; country_el is the position   *)
(* of the open pais element, 0 for None.                                   *)
(***************************************************************************)
MaxXmlRows == 3

\* The rows explored: a country that is null, the empty text or a name, a
\* type that is null or a name, a count.
XmlCountries == {None, Str(""), Str("CO"), Str("PE")}
XmlTipos == {None, Str("A")}
XmlCounts == {3}
XmlRowValues == [pais_deudor : XmlCountries, tipo : XmlTipos, cnt : XmlCounts]

\* str(value) if value is not None else ""
TextOrEmpty(value) == IF value = None THEN Str("") ELSE Str(value.v)

\* str(row[idx_cnt]) of an integer count
CountText(n) == Str(ToString(n))

\* The call: lines 51-57.
CallWriteXml ==
  /\ xml_pc = "idle"
  /\ \E rs \in SeqsUpTo(XmlRowValues, MaxXmlRows) : xml_rows' = rs
  /\ xml_next' = 1
  /\ current_country' = InitialCountry
  /\ country_el' = 0
  /\ root' = <<>>
  /\ xml_pc' = "loop"
  /\ UNCHANGED <<pipeline, sanitizer, other, waiting>>

\* One iteration of the loop of lines 58-66.
XmlRow ==
  /\ xml_pc = "loop"
  /\ xml_next <= Len(xml_rows)
  /\ LET row == xml_rows[xml_next]
         pais == TextOrEmpty(row.pais_deudor)
         tipo == TextOrEmpty(row.tipo)
         cnt == CountText(row.cnt)
         opened == pais /= current_country
         root1 == IF opened
                  THEN Append(root, [nombre |-> pais.v, componentes |-> <<>>])
                  ELSE root
         el == IF opened THEN Len(root1) ELSE country_el
     IN  /\ current_country' = IF opened THEN pais ELSE current_country
         /\ country_el' = el
         /\ IF el = 0
            THEN /\ xml_pc' = "AssertionError"
                 /\ root' = root1
                 /\ UNCHANGED xml_next
            ELSE /\ root' = [root1 EXCEPT ![el].componentes =
                               Append(@, [nombre |-> tipo.v, frecuencia |-> cnt.v])]
                 /\ xml_next' = xml_next + 1
                 /\ UNCHANGED xml_pc
  /\ UNCHANGED <<xml_rows, pipeline, sanitizer, other, waiting>>

\* Lines 68-75: the tree is written.
XmlWrite ==
  /\ xml_pc = "loop"
  /\ xml_next > Len(xml_rows)
  /\ xml_pc' = "written"
  /\ UNCHANGED <<xml_rows, xml_next, current_country, country_el, root,
                 pipeline, sanitizer, other, waiting>>

NextXml ==
  \/ CallWriteXml
  \/ XmlRow
  \/ XmlWrite

SpecXml == Init /\ [][NextXml]_vars

(***************************************************************************)
(* wait_for_db(host, port, user, password, dbname, timeout_seconds) of     *)
(* load_dump.py.  The clock is counted in whole seconds.                   *)
(***************************************************************************)
\* The largest timeout_seconds a call is made with.
MaxTimeout == 5

\* The latest clock reading at which a call begins.
MaxClockAtCall == 1

\* time.sleep returns after at least the time asked for, and at most this
\* much later.
MaxOversleep == 1

\* connect_timeout=3
ConnectTimeout == 3

\* time.sleep(2)
SleepSeconds == 2

\* Variant: the time is up as soon as the elapsed time reaches the limit.
TimedOutAtLimit(elapsed, limit) == elapsed >= limit

\* time.time() - start > timeout_seconds
TimedOut(elapsed, limit) == elapsed > limit

\* Line 18: start = time.time(), then the loop is entered.
CallWaitForDb ==
  /\ wait_pc = "idle"
  /\ \E t \in 0..MaxTimeout : timeout_seconds' = t
  /\ \E c \in 0..MaxClockAtCall : now' = c /\ start' = c
  /\ attempts' = 0
  /\ attempt_at' = 0
  /\ connected' = FALSE
  /\ wait_pc' = "connect"
  /\ UNCHANGED <<pipeline, sanitizer, other, xmlstate>>

\* Lines 21-28: psycopg2.connect returns a connection or raises, after at
\* most connect_timeout seconds.
Connect ==
  /\ wait_pc = "connect"
  /\ \E ok \in BOOLEAN :
       /\ connected' = ok
       /\ wait_pc' = IF ok THEN "connected" ELSE "except"
  /\ \E d \in 0..ConnectTimeout : now' = now + d
  /\ attempt_at' = now
  /\ attempts' = attempts + 1
  /\ UNCHANGED <<timeout_seconds, start, pipeline, sanitizer, other, xmlstate>>

\* Lines 29-31: the connection is closed and the function returns.
Return ==
  /\ wait_pc = "connected"
  /\ wait_pc' = "returned"
  /\ UNCHANGED <<timeout_seconds, start, now, attempts, attempt_at, connected,
                 pipeline, sanitizer, other, xmlstate>>

\* Lines 32-35: the handler reads the clock and raises when the time is up.
Except ==
  /\ wait_pc = "except"
  /\ wait_pc' = IF TimedOut(now - start, timeout_seconds)
                THEN "RuntimeError"
                ELSE "sleep"
  /\ UNCHANGED <<timeout_seconds, start, now, attempts, attempt_at, connected,
                 pipeline, sanitizer, other, xmlstate>>

\* Line 36: time.sleep(2), then the loop starts over.
Sleep ==
  /\ wait_pc = "sleep"
  /\ \E d \in SleepSeconds..(SleepSeconds + MaxOversleep) : now' = now + d
  /\ wait_pc' = "connect"
  /\ UNCHANGED <<timeout_seconds, start, attempts, attempt_at, connected,
                 pipeline, sanitizer, other, xmlstate>>

NextWait ==
  \/ CallWaitForDb
  \/ Connect
  \/ Return
  \/ Except
  \/ Sleep

\* The interpreter keeps executing the call: a step that can be taken is taken.
SpecWait == Init /\ [][NextWait]_vars /\ WF_vars(NextWait)

(***************************************************************************)
(* make_safe_column_names(columns), one label per step.                    *)
(***************************************************************************)
\* The column indexes explored: one label, or two labels that together
\* have at most MaxLabelLen characters.
InitColumns ==
  /\ InitPipeline
  /\ \E a \in 0..MaxLabelLen :
       \E l \in LabelsOfLen(a) :
         \/ columns = <<l>>
         \/ \E b \in 0..(MaxLabelLen - a) :
              \E m \in LabelsOfLen(b) : columns = <<l, m>>
  /\ mapping = <<>>
  /\ next_col = 1

\* One iteration of the loop of lines 44-56.
SanitizeColumn ==
  /\ next_col <= Len(columns)
  /\ mapping' = SetItem(mapping, columns[next_col], SafeName(columns[next_col]))
  /\ next_col' = next_col + 1
  /\ UNCHANGED <<columns, pipeline, other, cobranzas>>

\* pd.read_csv(csv_path, dtype=str): the frame under its original labels.
\* Columns are kept by position; the one record explored holds in each
\* cell the position of its column, so that the columns can be told apart.
ReadFrame(labels) ==
  [cols |-> labels, rows |-> << [j \in 1..Len(labels) |-> ToString(j)] >>]

\* Variant: the frame is rebuilt as a dictionary keyed by the new names, a
\* later column replaces an earlier one of the same name.
RenameOverwriting(frame, map) ==
  LET new == [j \in 1..Len(frame.cols) |-> map[frame.cols[j]]]
      kept == SelectSeq([j \in 1..Len(new) |-> j],
                        LAMBDA j : \A k \in 1..Len(new) : new[k] = new[j] => k <= j)
  IN  [cols |-> [i \in 1..Len(kept) |-> new[kept[i]]],
       rows |-> [r \in 1..Len(frame.rows) |->
                   [i \in 1..Len(kept) |-> frame.rows[r][kept[i]]]]]

\* df.rename(columns=rename_map): every label that has an entry is replaced
\* by its name; the columns keep their positions and their values.
Rename(frame, map) ==
  [cols |-> [j \in 1..Len(frame.cols) |->
               IF frame.cols[j] \in DOMAIN map THEN map[frame.cols[j]]
               ELSE frame.cols[j]],
   rows |-> frame.rows]

\* load_csv, once make_safe_column_names has returned: the frame is renamed
\* and returned.
RenameColumns ==
  /\ pc = "idle"
  /\ next_col > Len(columns)
  /\ df' = Rename(ReadFrame(columns), mapping)
  /\ pc' = "renamed"
  /\ UNCHANGED <<sink, locals, error, history, sanitizer, other, cobranzas>>

NextSanitizer ==
  \/ SanitizeColumn
  \/ RenameColumns

SpecSanitizer == InitColumns /\ [][NextSanitizer]_vars

(***************************************************************************)
(* Properties of a run.                                                    *)
(***************************************************************************)
Stg == sink["stg_consumer_complaints"]
DimProduct == sink["dim_product"]
DimChannel == sink["dim_channel"]
Fact == sink["fact_complaint"]
Agg == sink["agg_complaints_by_product_channel"]

\* Both dimension tables of the run in progress are in the sink.
DimsWritten ==
  \/ pc \in {"constrain_dims", "build_fact", "write_fact", "constrain_fact",
             "aggregate", "done"}
  \/ pc = "failed" /\ error.kind = "DatabaseError"

\* The fact table of the run in progress is in the sink.
FactWritten ==
  \/ pc \in {"constrain_fact", "aggregate", "done"}
  \/ pc = "failed" /\ error.names \in {<<"fact_complaint">>,
                                       <<"agg_complaints_by_product_channel">>}

BothKeys(f) == f.product_id /= NULL /\ f.channel_id /= NULL

\* The distinct values of a source column that are not missing.
DistinctValues(d, col) ==
  { d.rows[i][col] : i \in { j \in 1..Len(d.rows) : d.rows[j][col] /= NaN } }

\* The source position at which a value of a column is first seen.
FirstSeen(d, col, v) ==
  CHOOSE i \in 1..Len(d.rows) :
    /\ d.rows[i][col] = v
    /\ \A j \in 1..(i - 1) : d.rows[j][col] /= v

Names(t) == { t.rows[i].name : i \in 1..Len(t.rows) }

RECURSIVE SumCounts(_)
SumCounts(rows) ==
  IF rows = <<>> THEN 0 ELSE Head(rows).complaints_count + SumCounts(Tail(rows))

\* C1: after every completed run the fact table has as many rows as the
\* staging table and as the source, whatever the keys of the records and
\* whether or not the source has a complaint_id column.
C1_FactCountEqualsStaging ==
  pc = "done" =>
    /\ Stg.exists /\ Fact.exists
    /\ Len(Fact.rows) = Len(Stg.rows)
    /\ Len(Fact.rows) = Len(df.rows)

\* A completed run on a source without complaint_id that holds a record
\* whose two foreign keys are null, next to a record with keys.
C1_Witness ==
  /\ pc = "done"
  /\ "complaint_id" \notin df.cols
  /\ Len(Fact.rows) = 2
  /\ \E i \in 1..Len(Fact.rows) :
       Fact.rows[i].product_id = NULL /\ Fact.rows[i].channel_id = NULL
  /\ \E i \in 1..Len(Fact.rows) : BothKeys(Fact.rows[i])

\* C2: after every completed run, a fact row with a non-null product_id
\* (channel_id) has a dim_product (dim_channel) row with that id, whose name
\* is the raw value of the source record at the fact row's position.
C2_ReferentialIntegrity ==
  pc = "done" =>
    \A i \in 1..Len(Fact.rows) :
      /\ i <= Len(df.rows)
      /\ Fact.rows[i].product_id /= NULL =>
           \E j \in 1..Len(DimProduct.rows) :
             /\ DimProduct.rows[j].id = Fact.rows[i].product_id
             /\ DimProduct.rows[j].name = df.rows[i][product_col]
      /\ Fact.rows[i].channel_id /= NULL =>
           \E j \in 1..Len(DimChannel.rows) :
             /\ DimChannel.rows[j].id = Fact.rows[i].channel_id
             /\ DimChannel.rows[j].name = df.rows[i][channel_col]

\* A completed run with a fact row that refers to the second product and
\* the second channel.
C2_Witness ==
  /\ pc = "done"
  /\ \E i \in 1..Len(Fact.rows) :
       Fact.rows[i].product_id = 2 /\ Fact.rows[i].channel_id = 2

\* C3: on each axis the names written to the dimension table are exactly
\* the distinct non-missing raw values of the axis's source column.
C3_DimensionValues ==
  DimsWritten =>
    /\ Names(DimProduct) = DistinctValues(df, product_col)
    /\ Names(DimChannel) = DistinctValues(df, channel_col)

\* Dimension tables written from a source with a missing product value, a
\* present one, and two distinct channels.
C3_Witness ==
  /\ DimsWritten
  /\ \E i \in 1..Len(df.rows) : df.rows[i][product_col] = NaN
  /\ Cardinality(Names(DimProduct)) = 1
  /\ Cardinality(Names(DimChannel)) = 2

DenseFirstAppearance(t, d, col) ==
  /\ { t.rows[j].id : j \in 1..Len(t.rows) } = 1..Cardinality(DistinctValues(d, col))
  /\ Len(t.rows) = Cardinality(DistinctValues(d, col))
  /\ \A j, k \in 1..Len(t.rows) : t.rows[j].name = t.rows[k].name => j = k
  /\ \A j, k \in 1..Len(t.rows) :
       FirstSeen(d, col, t.rows[j].name) < FirstSeen(d, col, t.rows[k].name)
         => t.rows[j].id < t.rows[k].id

\* C4: in each dimension table the ids are exactly 1..N, N the number of
\* distinct values, no two rows share a name, and a value first seen at an
\* earlier source record has a smaller id than one first seen later.
C4_DenseKeysInFirstAppearanceOrder ==
  DimsWritten =>
    /\ DenseFirstAppearance(DimProduct, df, product_col)
    /\ DenseFirstAppearance(DimChannel, df, channel_col)

\* Two products first seen in the order Loan, Card (against the order of
\* the names), and a channel that occurs twice.
C4_Witness ==
  /\ DimsWritten
  /\ Len(df.rows) = 2
  /\ df.rows[1][product_col] = "Loan" /\ df.rows[2][product_col] = "Card"
  /\ df.rows[1][channel_col] = "Web" /\ df.rows[2][channel_col] = "Web"
  /\ DimProduct.rows = << [id |-> 1, name |-> "Loan"], [id |-> 2, name |-> "Card"] >>
  /\ DimChannel.rows = << [id |-> 1, name |-> "Web"] >>

\* C5: when a required column is absent, the missing-column error is raised
\* before any write: the sink is as it was when the run started, the
\* staging table included.
C5_MissingColumnBeforeAnyWrite ==
  (pc = "failed" /\ error.kind = "ValueError") => sink = prevSink

\* C6: a second run on the unchanged source leaves the sink as the first
\* run left it (staging, dimensions with their ids, fact, aggregate,
\* constraints and indexes) and ends as the first run ended: after a
\* completed run it completes, with no error.
C6_Idempotent ==
  (pc \in {"done", "failed"} /\ prevOutcome \in {"done", "failed"} /\ prevDf = df)
    => /\ sink = prevSink
       /\ pc = prevOutcome

\* A second completed run on a source of two records with two products,
\* after a first completed run on it.
C6_Witness ==
  /\ pc = "done" /\ prevOutcome = "done" /\ prevDf = df
  /\ calls = "loaded"
  /\ Len(DimProduct.rows) = 2
  /\ Len(Agg.rows) = 2

\* C7: after every completed run the complaints_count values add up to the
\* number of fact rows whose two keys are non-null.
C7_AggregateSum ==
  pc = "done" =>
    SumCounts(Agg.rows) =
      Cardinality({ i \in 1..Len(Fact.rows) : BothKeys(Fact.rows[i]) })

\* A completed run with a fact row that the aggregate counts and one,
\* lacking a key, that it does not.
C7_Witness ==
  /\ pc = "done"
  /\ SumCounts(Agg.rows) = 1
  /\ Len(Fact.rows) = 2

\* C8: after every completed run the aggregate has exactly one row for
\* each (product, channel) combination of a fact row with both keys, its
\* complaints_count is the number of fact rows of that combination, at
\* least 1, and it has no row for a combination of no fact row.
C8_AggregateRows ==
  pc = "done" =>
    /\ \A i \in 1..Len(Fact.rows) :
         BothKeys(Fact.rows[i]) =>
           Cardinality({ a \in 1..Len(Agg.rows) :
                           /\ Agg.rows[a].product_id = Fact.rows[i].product_id
                           /\ Agg.rows[a].channel_id = Fact.rows[i].channel_id }) = 1
    /\ \A a \in 1..Len(Agg.rows) :
         /\ Agg.rows[a].complaints_count >= 1
         /\ Agg.rows[a].complaints_count =
              Cardinality({ i \in 1..Len(Fact.rows) :
                              /\ Fact.rows[i].product_id = Agg.rows[a].product_id
                              /\ Fact.rows[i].channel_id = Agg.rows[a].channel_id })
         /\ \E j \in 1..Len(DimProduct.rows) :
              /\ DimProduct.rows[j].id = Agg.rows[a].product_id
              /\ DimProduct.rows[j].name = Agg.rows[a].product
         /\ \E j \in 1..Len(DimChannel.rows) :
              /\ DimChannel.rows[j].id = Agg.rows[a].channel_id
              /\ DimChannel.rows[j].name = Agg.rows[a].channel

\* A combination that two fact rows share.
C8_Witness ==
  /\ pc = "done"
  /\ Len(Agg.rows) = 1
  /\ Agg.rows[1].complaints_count = 2

\* C9: on each axis the foreign key of a fact row is null exactly when the
\* raw value of its source record is missing.
C9_NullKeyIffMissing ==
  FactWritten =>
    \A i \in 1..Len(Fact.rows) :
      /\ i <= Len(df.rows)
      /\ Fact.rows[i].product_id = NULL <=> df.rows[i][product_col] = NaN
      /\ Fact.rows[i].channel_id = NULL <=> df.rows[i][channel_col] = NaN

\* A fact table with a record that lacks only its channel and a record
\* that lacks only its product.
C9_Witness ==
  /\ FactWritten
  /\ \E i \in 1..Len(Fact.rows) :
       Fact.rows[i].product_id /= NULL /\ Fact.rows[i].channel_id = NULL
  /\ \E i \in 1..Len(Fact.rows) :
       Fact.rows[i].product_id = NULL /\ Fact.rows[i].channel_id /= NULL

(***************************************************************************)
(* Properties of make_safe_column_names.                                   *)
(***************************************************************************)
Returned == next_col > Len(columns)

IsCanonical(name) ==
  /\ name /= <<>>
  /\ \A i \in 1..Len(name) : name[i] \in Lowercase \cup Digits \cup {"_"}
  /\ \A i \in 1..(Len(name) - 1) : ~(name[i] = "_" /\ name[i + 1] = "_")
  /\ name[1] /= "_"
  /\ name[Len(name)] /= "_"

\* C10: every name of the mapping is non-empty, holds only lower-case
\* letters, digits and '_', has no two consecutive '_' and neither begins
\* nor ends with '_'; a label without an alphanumeric character maps to
\* "col"; and the returned mapping has a name for every label.
C10_SafeNames ==
  /\ \A col \in DOMAIN mapping :
       /\ IsCanonical(mapping[col])
       /\ (\A i \in 1..Len(col) : ~IsAlnum(col[i])) => mapping[col] = Fallback
  /\ Returned => DOMAIN mapping = { columns[i] : i \in 1..Len(columns) }

\* The returned mapping of a label with an upper-case letter and two inner
\* separators.
C10_Witness ==
  /\ Returned
  /\ \E col \in DOMAIN mapping :
       col = <<"N", "-", ".", "1">> /\ mapping[col] = <<"n", "_", "1">>

(***************************************************************************)
(* Properties of the declarations and of the order of the stages.          *)
(***************************************************************************)
\* The source has a complaint_id column in which two records agree.
HasDuplicateKeys(d) == "complaint_id" \in d.cols /\ ~IsUnique(FactKeys(d))

\* C11: over repeated runs on one sink no declaration fails because it is
\* already there: each ADD PRIMARY KEY is issued against a table without a
\* primary key (to_sql has just dropped and recreated it), each index
\* creation is accepted, and the only declaration that ever fails is the
\* fact primary key of a source with duplicate complaint_id values.
C11_NoRedeclarationError ==
  /\ pc = "constrain_dims" =>
       /\ ~DimProduct.pk /\ ~DimChannel.pk
       /\ CanCreateUniqueIndex(DimProduct, "uidx_dim_product_name", "name")
       /\ CanCreateUniqueIndex(DimChannel, "uidx_dim_channel_name", "name")
  /\ pc = "constrain_fact" =>
       /\ ~Fact.pk
       /\ CanCreateIndex(Fact, "idx_fact_complaint_product", "product_id")
       /\ CanCreateIndex(Fact, "idx_fact_complaint_channel", "channel_id")
  /\ (pc = "failed" /\ error.kind = "DatabaseError") =>
       /\ error.names = <<"fact_complaint">>
       /\ HasDuplicateKeys(df)

\* The dimension keys are about to be declared in a run on a sink in which
\* the previous run had declared them, and again in the run after that.
C11_Witness ==
  /\ pc = "constrain_dims"
  /\ prevOutcome = "done"
  /\ prevDf = df
  /\ prevSink["dim_product"].pk /\ prevSink["dim_channel"].pk
  /\ prevSink["fact_complaint"].pk
  /\ "uidx_dim_product_name" \in prevSink["dim_product"].idx

\* C12: a source in which two records carry the same complaint_id never
\* reaches the aggregate stage: declaring the fact primary key fails with a
\* database error that names fact_complaint, the run ends there with that
\* error, and the aggregate table is the one the run found.
C12_DuplicateKeyAborts ==
  HasDuplicateKeys(df) =>
    /\ pc \notin {"aggregate", "done"}
    /\ Agg = prevSink["agg_complaints_by_product_channel"]
    /\ (pc = "failed"
        /\ MissingColumns(DetectProductCol(df.cols), DetectChannelCol(df.cols)) = <<>>) =>
         /\ error = [kind |-> "DatabaseError", names |-> <<"fact_complaint">>]
         /\ Fact.rows = fact
         /\ ~Fact.pk

\* A run on a source with a duplicated complaint_id has been stopped at the
\* fact primary key, on a sink whose aggregate table a completed run built.
C12_Witness ==
  /\ HasDuplicateKeys(df)
  /\ pc = "failed"
  /\ error = [kind |-> "DatabaseError", names |-> <<"fact_complaint">>]
  /\ Len(Fact.rows) = 2
  /\ prevOutcome = "done"
  /\ Agg.exists /\ Agg.rows /= <<>>

(***************************************************************************)
(* Properties of interrupted runs.                                         *)
(***************************************************************************)
\* C13: when the sink fails at a statement the run leaves no partial
\* commit: the sink is the one the run found, no table that an earlier
\* stage of the run replaced is still there.  The statement is refused as
\* a whole, whatever to_sql commits on its way.
C13_NoPartialCommit ==
  (/\ pc = "failed"
   /\ error.kind = "OperationalError"
   /\ error.names \in {<<p>> : p \in ToSqlStatements
                                     \cup {"constrain_dims", "constrain_fact", "aggregate"}})
    => sink = prevSink

\* C14: during and after a staging write, failed or not, the staging table
\* is the complete old table, the complete new table, or absent.
C14_StagingAtomic ==
  \/ Stg = prevSink["stg_consumer_complaints"]
  \/ Stg = Absent
  \/ Stg.exists /\ Stg.cols = df.cols /\ Stg.rows = df.rows

\* The sink a run on source d leaves when it starts on an empty sink and
\* is not interrupted: lines 98-200 one after the other.
CleanRun(d) ==
  LET pcol == DetectProductCol(d.cols)
      ccol == DetectChannelCol(d.cols)
      P == BuildDimension(d, pcol)
      C == BuildDimension(d, ccol)
      F == BuildFact(d, pcol, ccol, DimMap(P), DimMap(C))
      dp == CreateIndex(AddPrimaryKey(ToSqlReplace(Absent, {"id", "name"}, P)),
                        "uidx_dim_product_name")
      dc == CreateIndex(AddPrimaryKey(ToSqlReplace(Absent, {"id", "name"}, C)),
                        "uidx_dim_channel_name")
      ft == CreateIndex(CreateIndex(
                AddPrimaryKey(ToSqlReplace(Absent, FactColumns(d), F)),
                "idx_fact_complaint_product"), "idx_fact_complaint_channel")
  IN  [t \in TableNames |->
        CASE t = "stg_consumer_complaints" -> ToSqlReplace(Absent, d.cols, d.rows)
          [] t = "dim_product" -> dp
          [] t = "dim_channel" -> dc
          [] t = "fact_complaint" -> ft
          [] t = "agg_complaints_by_product_channel" ->
               [exists |-> TRUE, cols |-> AggColumns,
                rows |-> AggregateRows(ft, dp, dc),
                pk |-> FALSE, idx |-> {"idx_agg_prod", "idx_agg_chan"}]]

\* C15: whatever an interrupted run left in the sink, a run that is not
\* interrupted ends as it ends on an empty sink: when it completes the sink
\* holds exactly the tables of a run on an empty sink, and it fails only
\* for what the source lacks (a required column, a unique complaint_id),
\* never for what it found in the sink.
C15_RecoversFromAnyLeftover ==
  /\ pc = "done" => sink = CleanRun(df)
  /\ (pc = "failed" /\ error.kind = "ValueError") =>
       MissingColumns(DetectProductCol(df.cols), DetectChannelCol(df.cols)) /= <<>>
  /\ (pc = "failed" /\ error.kind = "DatabaseError") =>
       error.names = <<"fact_complaint">> /\ HasDuplicateKeys(df)

\* A run has completed on a sink that an interrupted run had left with the
\* product dimension dropped and not yet replaced, next to the keyed
\* tables of the completed run before it.
C15_Witness ==
  /\ pc = "done"
  /\ calls = "following"
  /\ prevOutcome = "failed"
  /\ ~prevSink["dim_product"].exists
  /\ prevSink["dim_channel"].pk
  /\ prevSink["fact_complaint"].pk
  /\ prevSink["stg_consumer_complaints"].rows /= df.rows
  /\ Len(df.rows) = 2

(***************************************************************************)
(* Order of the stages of one run.                                         *)
(***************************************************************************)
BeforeFactWrite ==
  {"staging", "detect", "dimensions", "write_dim_product", "write_dim_channel",
   "constrain_dims", "build_fact", "write_fact"}

\* C16: the stages of a run come in the order staging, dimensions, fact,
\* aggregate (the frame was loaded with its sanitized columns before), and
\* each write is in the sink before the next stage starts: the dimensions
\* are written only once the staging table of the run is in the sink, the
\* fact table is written only once both dimension tables of the run are
\* there, the aggregate is built only once the fact table of the run is
\* there; until then the fact and aggregate tables are those the run found.
C16_StageOrder ==
  /\ pc = "staging" =>
       /\ DimProduct = prevSink["dim_product"]
       /\ DimChannel = prevSink["dim_channel"]
  /\ pc \in (BeforeFactWrite \cup {"constrain_fact", "aggregate", "done"}) \ {"staging"} =>
       Stg = ToSqlReplace(Absent, df.cols, df.rows)
  /\ pc \in BeforeFactWrite =>
       /\ Fact = prevSink["fact_complaint"]
       /\ Agg = prevSink["agg_complaints_by_product_channel"]
  /\ pc \in {"write_fact", "constrain_fact", "aggregate", "done"} =>
       /\ DimProduct.exists /\ DimProduct.rows = products
       /\ DimChannel.exists /\ DimChannel.rows = channels
  /\ pc \in {"constrain_fact", "aggregate"} =>
       Agg = prevSink["agg_complaints_by_product_channel"]
  /\ pc \in {"aggregate", "done"} =>
       Fact.exists /\ Fact.rows = fact
  /\ pc = "done" =>
       Agg.exists /\ Agg.rows = AggregateRows(Fact, DimProduct, DimChannel)

\* The fact table is about to be written: the dimension tables of this run
\* have replaced those of the completed run before, whose fact table and
\* aggregate are still in the sink.
C16_Witness ==
  /\ pc = "write_fact"
  /\ prevOutcome = "done"
  /\ DimProduct.rows = products
  /\ DimProduct.rows /= prevSink["dim_product"].rows
  /\ DimChannel.rows /= prevSink["dim_channel"].rows
  /\ Fact.rows /= fact
  /\ Fact.pk

\* The keys and the name indexes of both dimensions are declared.
DimensionsDeclared ==
  /\ DimProduct.pk /\ "uidx_dim_product_name" \in DimProduct.idx
  /\ DimChannel.pk /\ "uidx_dim_channel_name" \in DimChannel.idx

C18_Scenario ==
  (pc = "done" /\ calls = "scenario") =>
    /\ DimProduct.rows = << [id |-> 1, name |-> "Loan"] >>
    /\ DimChannel.rows = << [id |-> 1, name |-> "Web"], [id |-> 2, name |-> "Phone"] >>
    /\ Len(Fact.rows) = 3
    /\ [i \in 1..3 |-> <<Fact.rows[i].product_id, Fact.rows[i].channel_id>>]
         = << <<1, 1>>, <<1, 2>>, <<1, 1>> >>
    /\ Agg.rows =
         << [product_id |-> 1, product |-> "Loan", channel_id |-> 2,
             channel |-> "Phone", complaints_count |-> 1],
            [product_id |-> 1, product |-> "Loan", channel_id |-> 1,
             channel |-> "Web", complaints_count |-> 2] >>

\* The scenario run has completed on a sink in which the seed run had left
\* two products and one channel.
C18_Witness ==
  /\ pc = "done"
  /\ calls = "scenario"
  /\ Len(df.rows) = 3
  /\ Len(prevSink["dim_product"].rows) = 2
  /\ Len(Agg.rows) = 2

(***************************************************************************)
(* Records with a missing value, and the fact key.                         *)
(***************************************************************************)
\* C19: a record whose channel is missing still has its fact row, with a
\* null channel_id, and likewise for a missing product; no aggregate row
\* counts it: each count is the number of records that carry both names of
\* the row.
C19_MissingValueRecord ==
  pc = "done" =>
    /\ Len(Fact.rows) = Len(df.rows)
    /\ \A i \in 1..Len(df.rows) :
         /\ df.rows[i][channel_col] = NaN => Fact.rows[i].channel_id = NULL
         /\ df.rows[i][product_col] = NaN => Fact.rows[i].product_id = NULL
    /\ \A k \in 1..Len(Agg.rows) :
         /\ Agg.rows[k].product /= NaN
         /\ Agg.rows[k].channel /= NaN
         /\ Agg.rows[k].complaints_count =
              Cardinality({ j \in 1..Len(df.rows) :
                              /\ df.rows[j][product_col] = Agg.rows[k].product
                              /\ df.rows[j][channel_col] = Agg.rows[k].channel })

\* A completed run on two records of one product, the first without a
\* channel: two fact rows, one aggregate row that counts one record.
C19_Witness ==
  /\ pc = "done"
  /\ Len(df.rows) = 2
  /\ df.rows[1][channel_col] = NaN
  /\ df.rows[1][product_col] /= NaN
  /\ df.rows[2][product_col] = df.rows[1][product_col]
  /\ df.rows[2][channel_col] /= NaN
  /\ Len(Fact.rows) = 2
  /\ Fact.rows[1].channel_id = NULL
  /\ Len(Agg.rows) = 1
  /\ Agg.rows[1].complaints_count = 1

\* C20: the fact key of the record at position i is the text of its
\* complaint_id when the source has that column, and the text of i
\* otherwise, so that the generated keys are "1" .. "n" in row order.
C20_FactKey ==
  FactWritten =>
    /\ Len(Fact.rows) = Len(df.rows)
    /\ \A i \in 1..Len(df.rows) :
         Fact.rows[i].complaint_id =
           IF "complaint_id" \in df.cols THEN df.rows[i]["complaint_id"]
           ELSE ToString(i)

\* A fact table with two generated keys is in the sink, after a run whose
\* keys came from the source.
C20_Witness ==
  /\ FactWritten
  /\ "complaint_id" \notin df.cols
  /\ Len(Fact.rows) = 2
  /\ Fact.rows[2].complaint_id = "2"
  /\ "complaint_id" \in prevDf.cols
  /\ prevSink["fact_complaint"].rows /= <<>>

(***************************************************************************)
(* The aggregate table between runs.                                       *)
(***************************************************************************)
\* C23: the rows of the aggregate table are in ascending order of product
\* name and, for one product, in ascending order of channel name, whatever
\* the order of the records and of the surrogate keys.
C23_AggregateOrder ==
  pc = "done" =>
    \A k \in 1..(Len(Agg.rows) - 1) :
      \/ NameRank(Agg.rows[k].product) < NameRank(Agg.rows[k + 1].product)
      \/ /\ Agg.rows[k].product = Agg.rows[k + 1].product
         /\ NameRank(Agg.rows[k].channel) < NameRank(Agg.rows[k + 1].channel)

\* Two aggregate rows of which the first has the greater product key and
\* the greater channel key: the second record of the source comes first.
C23_Witness ==
  /\ pc = "done"
  /\ Len(Agg.rows) = 2
  /\ Agg.rows[1].product_id > Agg.rows[2].product_id
  /\ Agg.rows[1].channel_id > Agg.rows[2].channel_id
  /\ df.rows[2][product_col] = Agg.rows[1].product

\* C24: whenever no run is in progress the aggregate table, when there is
\* one, holds the counts of the fact and dimension tables that are in the
\* sink.
C24_AggregateConsistentWhenIdle ==
  (Finished /\ Agg.exists) =>
    /\ Fact.exists /\ DimProduct.exists /\ DimChannel.exists
    /\ Agg.rows = AggregateRows(Fact, DimProduct, DimChannel)

\* C25: when the run fails for a missing required column, the dimension,
\* fact and aggregate tables are those the run found, with the keys and
\* indexes they had, and the error names every missing column: the product
\* column, the channel column, or both in this order.
C25_MissingColumnFrame ==
  (pc = "failed" /\ error.kind = "ValueError") =>
    LET noProduct == {"product", "product_name"} \cap df.cols = {}
        noChannel == "submitted_via" \notin df.cols
    IN  /\ DimProduct = prevSink["dim_product"]
        /\ DimChannel = prevSink["dim_channel"]
        /\ Fact = prevSink["fact_complaint"]
        /\ Agg = prevSink["agg_complaints_by_product_channel"]
        /\ noProduct \/ noChannel
        /\ error.names =
             IF noProduct /\ noChannel THEN <<"product/product_name", "submitted_via">>
             ELSE IF noProduct THEN <<"product/product_name">>
             ELSE <<"submitted_via">>

\* A source with neither column has failed on a sink that holds the keyed
\* tables of a completed run.
C25_Witness ==
  /\ pc = "failed"
  /\ error = [kind |-> "ValueError",
              names |-> <<"product/product_name", "submitted_via">>]
  /\ prevOutcome = "done"
  /\ DimProduct.pk /\ Fact.pk /\ Agg.exists
  /\ Stg /= prevSink["stg_consumer_complaints"]

(***************************************************************************)
(* Labels that sanitize to the same name.                                  *)
(***************************************************************************)
\* Two distinct labels of the frame have the same name in the mapping.
Collision ==
  /\ Len(columns) = 2
  /\ next_col > Len(columns)
  /\ columns[1] /= columns[2]
  /\ mapping[columns[1]] = mapping[columns[2]]

\* C21, as stated: after the renaming the frame holds a single column of
\* the shared name, and it carries the values of the later column.
C21_LaterOverwritesEarlier ==
  (pc = "renamed" /\ Collision) =>
    /\ df.cols = << mapping[columns[2]] >>
    /\ df.rows = << <<"2">> >>

\* C21, amended: make_safe_column_names returns a mapping that gives both
\* labels the same name, no error is raised on the way, and the renamed
\* frame keeps both columns, at their positions and with their own values,
\* under that one name.
C21_CollisionKeepsBothColumns ==
  /\ Collision =>
       /\ DOMAIN mapping = {columns[1], columns[2]}
       /\ error = NoError
       /\ pc \in {"idle", "renamed"}
  /\ (pc = "renamed" /\ Collision) =>
       /\ df.cols = << mapping[columns[1]], mapping[columns[2]] >>
       /\ df.rows = << <<"1", "2">> >>

\* The frame with the labels "N/" and "n-" has been renamed: both columns
\* are called n.
C21_Witness ==
  /\ pc = "renamed"
  /\ Collision
  /\ columns = << <<"N", "/">>, <<"n", "-">> >>
  /\ df.cols = << <<"n">>, <<"n">> >>

(***************************************************************************)
(* Two runs that interleave.                                               *)
(***************************************************************************)
BothInProgress ==
  /\ pc \notin {"idle", "done", "failed"}
  /\ other.pc \notin {"idle", "done", "failed"}

BothFinished ==
  /\ pc \in {"done", "failed"}
  /\ other.pc \in {"done", "failed"}

\* The sinks the two runs leave when one is run after the other.
SerialOutcomes == {CleanRun(df), CleanRun(other.df)}

\* C22: the pipeline does nothing to keep two runs apart: while both are
\* in progress the next statement may always come from the other run.
\* Run one after the other, the two runs leave the sink of the run that
\* came last; interleaved, they reach sinks that no such execution leaves
\* (the state C22_Witness describes).
C22_NothingPreventsInterleaving ==
  /\ BothInProgress => ENABLED Switch
  /\ (BothFinished /\ calls = "concurrent") =>
       /\ pc = "done" /\ other.pc = "done"
       /\ sink = CleanRun(df)

\* Both runs have completed without error, and the sink is none of the two
\* serial outcomes: it holds the fact table of one run next to the product
\* dimension of the other, in which the key of the fact row stands for a
\* name the record does not carry.
C22_Witness ==
  /\ BothFinished
  /\ pc = "done" /\ other.pc = "done"
  /\ calls = "interleaved"
  /\ sink \notin SerialOutcomes
  /\ Fact.rows = fact
  /\ DimProduct.rows = other.products
  /\ Len(DimProduct.rows) = 1
  /\ Fact.rows[1].product_id = 1
  /\ DimProduct.rows[1].id = 1
  /\ DimProduct.rows[1].name /= df.rows[1]["product"]

(***************************************************************************)
(* Properties of write_xml_top_componentes.                                *)
(***************************************************************************)
\* The number of maximal runs of consecutive equal values of a sequence.
MaximalRuns(q) ==
  Cardinality({ i \in 1..Len(q) : i = 1 \/ q[i] /= q[i - 1] })

\* The rows the loop has been through.
RowsDone == SubSeq(xml_rows, 1, xml_next - 1)

RECURSIVE SumComponentes(_)
SumComponentes(els) ==
  IF els = <<>> THEN 0
  ELSE Len(Head(els).componentes) + SumComponentes(Tail(els))

\* C26, as stated: the assertion never fails, the written tree has one
\* pais element per maximal run of consecutive rows with equal country,
\* and as many componente elements as there are rows.
C26_OnePaisPerCountryRun ==
  /\ xml_pc /= "AssertionError"
  /\ xml_pc = "written" =>
       /\ Len(root) = MaximalRuns([i \in 1..Len(xml_rows) |-> xml_rows[i].pais_deudor])
       /\ SumComponentes(root) = Len(xml_rows)

\* C26, amended: the assertion never fails (after every row, the first
\* included, a pais element is open); there is one pais element per maximal
\* run of consecutive rows with equal country text, a null country being
\* the empty text, named after that text, in the order of the rows; and
\* there is one componente element per row.
C26_OnePaisPerCountryTextRun ==
  /\ xml_pc /= "AssertionError"
  /\ (xml_pc \in {"loop", "written"} /\ xml_next > 1) => country_el = Len(root)
  /\ xml_pc \in {"loop", "written"} =>
       LET text == [i \in 1..Len(RowsDone) |-> TextOrEmpty(RowsDone[i].pais_deudor).v]
           starts == SelectSeq([i \in 1..Len(text) |-> i],
                               LAMBDA i : i = 1 \/ text[i] /= text[i - 1])
       IN  /\ Len(root) = MaximalRuns(text)
           /\ [k \in 1..Len(root) |-> root[k].nombre] =
                [k \in 1..Len(starts) |-> text[starts[k]]]
           /\ SumComponentes(root) = Len(RowsDone)

\* The tree of three rows is written: a null country first, then the empty
\* text, then a name: two pais elements, three componente elements.
C26_Witness ==
  /\ xml_pc = "written"
  /\ Len(xml_rows) = 3
  /\ xml_rows[1].pais_deudor = None
  /\ xml_rows[2].pais_deudor = Str("")
  /\ xml_rows[3].pais_deudor = Str("CO")
  /\ Len(root) = 2
  /\ Len(root[1].componentes) = 2

(***************************************************************************)
(* wait_for_db.                                                            *)
(***************************************************************************)
WaitReturned == wait_pc = "returned"
WaitRaised == wait_pc = "RuntimeError"
WaitEnded == WaitReturned \/ WaitRaised
Elapsed == now - start

\* C27, as stated: the timeout error is raised only at a failed attempt that
\* was made after more than timeout_seconds had elapsed since the call
\* started.
C27_RaisesAtAttemptMadeAfterTimeout ==
  WaitRaised => TimedOut(attempt_at - start, timeout_seconds)

\* What wait_for_db does in every state of a call.
WaitSafety ==
  \* it returns at the first attempt that connects and never retries after it
  /\ connected => wait_pc \in {"connected", "returned"}
  /\ WaitReturned => connected
  \* it raises only after a failure, with the time up when the handler
  \* reads the clock
  /\ WaitRaised => ~connected /\ Elapsed > timeout_seconds
  \* a failure handled with the time up is never followed by a retry
  /\ wait_pc = "sleep" => ~connected /\ Elapsed <= timeout_seconds
  \* every retry but the last is followed by a sleep, which bounds the
  \* number of attempts by the timeout
  /\ (wait_pc \in {"connect", "except", "sleep"} /\ attempts >= 2)
       => (attempts - 1) * SleepSeconds <= timeout_seconds + ConnectTimeout
  \* nothing runs after the return or the error
  /\ WaitEnded => ~ENABLED NextWait

\* C27: a call of wait_for_db ends; it returns at the first attempt that
\* connects and never retries after it; it raises the timeout error at the
\* first failed attempt whose handler finds more than timeout_seconds
\* elapsed, and never while the elapsed time is at most timeout_seconds.
C27_EndsAtFirstSuccessOrHandledTimeout ==
  /\ []WaitSafety
  /\ (wait_pc = "connect") ~> WaitEnded

\* The time runs out during an attempt that was made within the timeout,
\* after an earlier failure and a sleep.
C27_Witness ==
  /\ WaitRaised
  /\ attempts >= 2
  /\ attempt_at - start <= timeout_seconds
  /\ Elapsed > timeout_seconds

====
